---- MODULE Spec2Model ----
(***************************************************************************)
(* Model of ico_converter.py: the Tkinter form (input entry, the "All      *)
(* Sizes" flag, the six size flags and the state of their checkboxes),     *)
(* its handlers (select_input_file, toggle_all_sizes, a click on a size    *)
(* checkbox, convert) and convert_to_ico with the Pillow calls it makes.   *)
(*                                                                         *)
(* The handlers run on the single Tk thread and every dialog is modal, so  *)
(* each handler is one action.  What the user answers in a dialog and what *)
(* the file system and the image library do are inputs of the action.      *)
(* The variables handler .. dest describe the handler that has just run    *)
(* (the locals of convert(), the dialogs it showed and the destination     *)
(* file before and after); they are dropped when the handler returns to    *)
(* the event loop, which then takes the next event.                        *)
(***************************************************************************)
EXTENDS Integers, Sequences, FiniteSets, TLC

\* Bounds of the model.
MaxFiles == 2       \* image files the open dialog offers / paths the save dialog returns
MaxSrcUnits == 2    \* source images measure 128*i x 128*j pixels, i, j in 1..MaxSrcUnits

VARIABLES
    input_entry,        \* text of the input Entry widget (a path; <<>> is the empty string)
    all_sizes_var,      \* BooleanVar of the "All Sizes" checkbox
    size_vars,          \* size -> BooleanVar of the size's checkbox
    size_checkbuttons,  \* size -> state of the size's checkbox widget
    handler,            \* the handler that ran last
    input_path,         \* convert(): local input_path
    output_path,        \* convert(): local output_path
    conv_sizes,         \* convert(): local sizes
    log,                \* dialogs shown and calls made by the last handler, in order
    ret,                \* what convert_to_ico returned
    exc,                \* the exception raised inside convert_to_ico ("" when none)
    dest0,              \* file at output_path before convert_to_ico
    dest                \* file at output_path after convert_to_ico

form == <<input_entry, all_sizes_var, size_vars, size_checkbuttons>>
run  == <<handler, input_path, output_path, conv_sizes, log, ret, exc, dest0, dest>>
vars == <<input_entry, all_sizes_var, size_vars, size_checkbuttons,
          handler, input_path, output_path, conv_sizes, log, ret, exc, dest0, dest>>

----------------------------------------------------------------------------
\* Paths.  A path is a string; the empty string is <<>>.
EmptyPath == <<>>
InPaths   == {<<"in", i>> : i \in 1..MaxFiles}
OutPaths  == {<<"out", i>> : i \in 1..MaxFiles}

\* The global list `sizes` the checkboxes are created from; size_vars is a
\* dict filled in this order, so size_vars.items() iterates in this order.
sizes == <<16, 32, 48, 64, 128, 256>>

SizeSet == {sizes[i] : i \in 1..Len(sizes)}

\* The literal list convert() uses when "All Sizes" is set.
AllSizesList == << <<16,16>>, <<32,32>>, <<48,48>>, <<64,64>>, <<128,128>>, <<256,256>> >>

Event(ev, arg) == [ev |-> ev, arg |-> arg]

----------------------------------------------------------------------------
\* Files.  An input file is either no image at all or an image of some
\* dimensions and mode; the destination is absent, an older file, a
\* truncated/partly written file or an ICO with its directory entries
\* (one byte per dimension, as stored).
NotAnImage == [w |-> 0, h |-> 0, mode |-> "none"]
SrcDims    == {128 * i : i \in 1..MaxSrcUnits}
Images     == [w : SrcDims, h : SrcDims, mode : {"RGB", "RGBA"}]

Absent   == [kind |-> "absent",  entries |-> <<>>]
OldFile  == [kind |-> "old",     entries |-> <<>>]
Partial  == [kind |-> "partial", entries |-> <<>>]
IcoFile(entries) == [kind |-> "ico", entries |-> entries]

Faults == {"none", "open", "convert", "save_open", "save_write"}

----------------------------------------------------------------------------
\* Pillow, as far as convert_to_ico uses it.

Abs(n) == IF n < 0 THEN -n ELSE n
Max(a, b) == IF a >= b THEN a ELSE b

\* Image.thumbnail's round_aspect for the height: of floor and ceiling of
\* x*H/W the one whose ratio x/n is nearer to W/H (the floor on a tie, 0
\* always wins), and at least 1.
RoundAspectY(x, W, H) ==
    LET f == (x * H) \div W
        c == IF (x * H) % W = 0 THEN f ELSE f + 1
        n == IF f = 0 THEN 0
             ELSE IF Abs(W * f - x * H) * c <= Abs(W * c - x * H) * f THEN f ELSE c
    IN  Max(n, 1)

\* The same for the width: of floor and ceiling of y*W/H the one whose
\* ratio n/y is nearer to W/H.
RoundAspectX(y, W, H) ==
    LET f == (y * W) \div H
        c == IF (y * W) % H = 0 THEN f ELSE f + 1
        n == IF Abs(W * y - f * H) <= Abs(W * y - c * H) THEN f ELSE c
    IN  Max(n, 1)

\* Image.thumbnail(size): the dimensions of the copy of img reduced to fit
\* the box size, keeping the aspect ratio; an image that already fits is
\* left as it is.
Thumbnail(img, size) ==
    LET x == size[1]
        y == size[2]
    IN  IF x >= img.w /\ y >= img.h THEN <<img.w, img.h>>
        ELSE IF x * img.h >= img.w * y
             THEN <<RoundAspectX(y, img.w, img.h), y>>
             ELSE <<x, RoundAspectY(x, img.w, img.h)>>

\* sorted(set(sizes)): the distinct pairs in ascending (lexicographic) order.
PairLess(a, b) == a[1] < b[1] \/ (a[1] = b[1] /\ a[2] < b[2])

RECURSIVE SortedPairs(_)
SortedPairs(S) ==
    IF S = {} THEN <<>>
    ELSE LET m == CHOOSE a \in S : \A b \in S \ {a} : PairLess(a, b)
         IN  <<m>> \o SortedPairs(S \ {m})

\* A dimension as the ICO directory stores it (one byte, 0 stands for 256)
\* and as a decoder reads it back.
EncodeDim(n) == IF n < 256 THEN n ELSE 0
DecodeDim(b) == IF b = 0 THEN 256 ELSE b

\* The ICO encoder: for each requested size in sorted order, skip it when it
\* is larger than the image or than 256, else embed a thumbnail of the
\* image and write the thumbnail's dimensions into the directory.
RECURSIVE IcoFrames(_, _)
IcoFrames(img, szs) ==
    IF szs = <<>> THEN <<>>
    ELSE LET size == Head(szs)
             rest == IcoFrames(img, Tail(szs))
         IN  IF size[1] > img.w \/ size[2] > img.h \/ size[1] > 256 \/ size[2] > 256
             THEN rest
             ELSE LET t == Thumbnail(img, size)
                  IN  << <<EncodeDim(t[1]), EncodeDim(t[2])>> >> \o rest

IcoSave(img, szs) ==
    IcoFile(IcoFrames(img, SortedPairs({szs[i] : i \in 1..Len(szs)})))

\* What a decoder reports for a file: the dimensions of its embedded images.
DecodedSizes(file) ==
    [i \in 1..Len(file.entries) |->
        <<DecodeDim(file.entries[i][1]), DecodeDim(file.entries[i][2])>>]

\* img.save(output_path, format='ICO', sizes=sizes): the destination is
\* opened for writing and truncated, then encoded into.  Failing to open it
\* leaves it as it was; a failure while writing leaves a file that existed
\* before truncated and removes one that the call created.
ImageSave(img, szs, before, fault) ==
    IF fault = "save_open" THEN [exc |-> "PermissionError", dest |-> before]
    ELSE IF fault = "save_write"
         THEN [exc |-> "OSError",
               dest |-> IF before.kind = "absent" THEN Absent ELSE Partial]
         ELSE [exc |-> "", dest |-> IcoSave(img, szs)]

----------------------------------------------------------------------------
\* convert_to_ico

\* The body of the try block: open, convert to RGBA unless the image is
\* RGBA already, save.  exc is the exception raised ("" when none).
TryBody(src, szs, before, fault) ==
    IF fault = "open" THEN [exc |-> "FileNotFoundError", dest |-> before]
    ELSE IF src.mode = "none" THEN [exc |-> "UnidentifiedImageError", dest |-> before]
    ELSE IF src.mode # "RGBA" /\ fault = "convert"
         THEN [exc |-> "MemoryError", dest |-> before]
         ELSE ImageSave([src EXCEPT !.mode = "RGBA"], szs, before, fault)

\* The exceptions the library raises here and the ones that derive from OSError.
Exceptions == {"FileNotFoundError", "UnidentifiedImageError", "PermissionError",
               "OSError", "MemoryError"}
OSErrors   == {"FileNotFoundError", "UnidentifiedImageError", "PermissionError",
               "OSError"}

Caught_OSErrorOnly(e) == e \in OSErrors

\* except Exception as e
Caught(e) == e \in Exceptions

\* The result of convert_to_ico: what it returns ("raised" when the
\* exception leaves it), the dialogs it shows, the destination afterwards.
convert_to_ico(src, szs, before, fault) ==
    LET r == TryBody(src, szs, before, fault)
    IN  IF r.exc = "" THEN [ret |-> "True", log |-> <<>>, exc |-> "", dest |-> r.dest]
        ELSE IF Caught(r.exc)
             THEN [ret |-> "False", log |-> <<Event("showerror", r.exc)>>,
                   exc |-> r.exc, dest |-> r.dest]
             ELSE [ret |-> "raised", log |-> <<>>, exc |-> r.exc, dest |-> r.dest]

----------------------------------------------------------------------------
\* convert

\* for size, var in size_vars.items(): if var.get(): sizes.append((size, size))
RECURSIVE AppendSelected_Reversed(_, _, _)
AppendSelected_Reversed(keys, flags, acc) ==
    IF keys = <<>> THEN acc
    ELSE AppendSelected_Reversed(Tail(keys), flags,
            IF flags[Head(keys)] THEN <<<<Head(keys), Head(keys)>>>> \o acc ELSE acc)

RECURSIVE AppendSelected(_, _, _)
AppendSelected(keys, flags, acc) ==
    IF keys = <<>> THEN acc
    ELSE AppendSelected(Tail(keys), flags,
            IF flags[Head(keys)] THEN Append(acc, <<Head(keys), Head(keys)>>) ELSE acc)

BuildSizes_FlagsOnly(all, flags) == AppendSelected(sizes, flags, <<>>)

\* The size list convert() builds from the "All Sizes" flag and the size flags.
BuildSizes(all, flags) ==
    IF all THEN AllSizesList ELSE AppendSelected(sizes, flags, <<>>)

InputMissing_Never(p) == FALSE
\* if not input_path
InputMissing(p) == p = EmptyPath

OutputMissing_Never(p) == FALSE
\* if not output_path
OutputMissing(p) == p = EmptyPath

SizesMissing_Never(szs) == FALSE
\* if not sizes
SizesMissing(szs) == szs = <<>>

WarnInput  == Event("showwarning", "Please select an input file.")
WarnSizes  == Event("showwarning", "Please select at least one icon size.")
AskSave    == Event("asksaveasfilename", "")
CallToIco  == Event("convert_to_ico", "")
ShowInfo   == Event("showinfo", "Successfully converted")

Run(ip, op, szs, lg, r, e, d0, d) ==
    [input_path |-> ip, output_path |-> op, sizes |-> szs, log |-> lg,
     ret |-> r, exc |-> e, dest0 |-> d0, dest |-> d]

\* One run of convert(): entry, all and flags are the form, out is the path
\* the save dialog returns, before the file found at that path, src the
\* content of the input file and fault what goes wrong in the library.
convert(entry, all, flags, out, before, src, fault) ==
    IF InputMissing(entry)
    THEN Run(entry, EmptyPath, <<>>, <<WarnInput>>, "none", "", Absent, Absent)
    ELSE IF OutputMissing(out)
    THEN Run(entry, out, <<>>, <<AskSave>>, "none", "", Absent, Absent)
    ELSE LET szs == BuildSizes(all, flags)
         IN  IF SizesMissing(szs)
             THEN Run(entry, out, szs, <<AskSave, WarnSizes>>, "none", "", before, before)
             ELSE LET c == convert_to_ico(src, szs, before, fault)
                  IN  Run(entry, out, szs,
                          <<AskSave, CallToIco>> \o c.log
                             \o (IF c.ret = "True" THEN <<ShowInfo>> ELSE <<>>),
                          c.ret, c.exc, before, c.dest)

----------------------------------------------------------------------------
\* The state machine.

NoRun(h, lg) ==
    /\ handler' = h
    /\ input_path' = EmptyPath
    /\ output_path' = EmptyPath
    /\ conv_sizes' = <<>>
    /\ log' = lg
    /\ ret' = "none"
    /\ exc' = ""
    /\ dest0' = Absent
    /\ dest' = Absent

Init ==
    /\ input_entry = EmptyPath
    /\ all_sizes_var = TRUE
    /\ size_vars = [s \in SizeSet |-> FALSE]
    /\ size_checkbuttons = [s \in SizeSet |-> "disabled"]
    /\ handler = "none"
    /\ input_path = EmptyPath
    /\ output_path = EmptyPath
    /\ conv_sizes = <<>>
    /\ log = <<>>
    /\ ret = "none"
    /\ exc = ""
    /\ dest0 = Absent
    /\ dest = Absent

\* The user edits the text of the input entry.
EditEntry ==
    /\ handler = "none"
    /\ \E p \in InPaths \cup {EmptyPath} : input_entry' = p
    /\ UNCHANGED <<all_sizes_var, size_vars, size_checkbuttons>>
    /\ NoRun("edit", <<>>)

\* Browse: the path the open dialog returns replaces the entry's text
\* unless the dialog was cancelled.
select_input_file ==
    /\ handler = "none"
    /\ \E file_path \in InPaths \cup {EmptyPath} :
          input_entry' = IF file_path # EmptyPath THEN file_path ELSE input_entry
    /\ UNCHANGED <<all_sizes_var, size_vars, size_checkbuttons>>
    /\ NoRun("select_input_file", <<Event("askopenfilename", "")>>)

CheckboxState_Inverted(all) == IF all THEN "normal" ELSE "disabled"

\* state = tk.DISABLED if all_sizes_var.get() else tk.NORMAL
CheckboxState(all) == IF all THEN "disabled" ELSE "normal"

\* A click on "All Sizes": the checkbox toggles its variable, then runs
\* its command toggle_all_sizes.
toggle_all_sizes ==
    /\ handler = "none"
    /\ all_sizes_var' = ~all_sizes_var
    /\ size_checkbuttons' = [s \in SizeSet |-> CheckboxState(all_sizes_var')]
    /\ UNCHANGED <<input_entry, size_vars>>
    /\ NoRun("toggle_all_sizes", <<>>)

\* A click on a size checkbox: a disabled checkbox ignores it, an enabled
\* one toggles its variable.
ToggleSize(s) ==
    /\ handler = "none"
    /\ size_checkbuttons[s] = "normal"
    /\ size_vars' = [size_vars EXCEPT ![s] = ~size_vars[s]]
    /\ UNCHANGED <<input_entry, all_sizes_var, size_checkbuttons>>
    /\ NoRun("toggle_size", <<>>)

\* What a click on Convert does to the run variables.
ConvertRun ==
    /\ handler = "none"
    /\ \E out \in OutPaths \cup {EmptyPath}, before \in {Absent, OldFile},
       src \in Images \cup {NotAnImage}, fault \in Faults :
        LET r == convert(input_entry, all_sizes_var, size_vars, out, before, src, fault)
        IN  /\ handler' = "convert"
            /\ input_path' = r.input_path
            /\ output_path' = r.output_path
            /\ conv_sizes' = r.sizes
            /\ log' = r.log
            /\ ret' = r.ret
            /\ exc' = r.exc
            /\ dest0' = r.dest0
            /\ dest' = r.dest

Convert_ClearsEntry ==
    /\ ConvertRun
    /\ input_entry' = IF ret' = "True" THEN EmptyPath ELSE input_entry
    /\ UNCHANGED <<all_sizes_var, size_vars, size_checkbuttons>>

\* A click on Convert.
Convert ==
    /\ ConvertRun
    /\ UNCHANGED <<input_entry, all_sizes_var, size_vars, size_checkbuttons>>

\* The handler returns to the event loop: its locals and dialogs are gone,
\* the form is as the handler left it and the next event can be handled.
mainloop ==
    /\ handler # "none"
    /\ NoRun("none", <<>>)
    /\ UNCHANGED <<input_entry, all_sizes_var, size_vars, size_checkbuttons>>

Next ==
    \/ select_input_file
    \/ EditEntry
    \/ toggle_all_sizes
    \/ \E s \in SizeSet : ToggleSize(s)
    \/ Convert
    \/ mainloop

Spec == Init /\ [][Next]_vars

----------------------------------------------------------------------------
\* Properties.

InLog(e)   == \E i \in 1..Len(log) : log[i] = e
Count(e)   == Cardinality({i \in 1..Len(log) : log[i] = e})
Called     == InLog(CallToIco)
Selected   == {s \in SizeSet : size_vars[s]}
ErrorShown == \E i \in 1..Len(log) : log[i].ev = "showerror"
AnyWarning == \E i \in 1..Len(log) : log[i].ev = "showwarning"
\* convert() has just run and got as far as building its size list
BuiltSizes == handler = "convert" /\ input_path # EmptyPath /\ output_path # EmptyPath

\* C1: whenever convert() builds the size list with "All Sizes" set, the
\* list is the six canonical pairs in order, whatever the size flags are,
\* and that list is what convert_to_ico is called with.
C1_AllSizesCanonical ==
    (BuiltSizes /\ all_sizes_var) =>
        /\ conv_sizes = << <<16,16>>, <<32,32>>, <<48,48>>, <<64,64>>, <<128,128>>, <<256,256>> >>
        /\ Called

C1_Witness ==
    /\ BuiltSizes /\ all_sizes_var /\ Called
    /\ size_vars[32] /\ size_vars[256] /\ ~size_vars[16]

\* C2: whenever convert() builds the size list with "All Sizes" clear, the
\* list holds the pair (s,s) of every selected size s, nothing else, each
\* once, in ascending order of s.
C2_SelectedSizesAscending ==
    (BuiltSizes /\ ~all_sizes_var) =>
        /\ \A i \in 1..Len(conv_sizes) :
              /\ conv_sizes[i][1] = conv_sizes[i][2]
              /\ conv_sizes[i][1] \in Selected
        /\ \A s \in Selected : \E i \in 1..Len(conv_sizes) : conv_sizes[i] = <<s, s>>
        /\ \A i, j \in 1..Len(conv_sizes) : i < j => conv_sizes[i][1] < conv_sizes[j][1]

C2_Witness ==
    /\ BuiltSizes /\ ~all_sizes_var
    /\ Selected = {16, 64, 256}
    /\ Len(conv_sizes) = 3

\* C3 as claimed: with "All Sizes" clear and no size selected, convert()
\* ends with the "no size selected" warning and without calling
\* convert_to_ico.
C3_AsClaimed ==
    (handler = "convert" /\ ~all_sizes_var /\ Selected = {}) =>
        /\ InLog(WarnSizes)
        /\ ~Called

\* C3 amended: with "All Sizes" clear and no size selected, convert() never
\* calls convert_to_ico, opens no image and leaves the destination as it
\* was; it shows the "no size selected" warning exactly when the input path
\* is not empty and the save dialog returned a path (with an empty input
\* path it shows the input warning, after a cancelled save dialog nothing).
C3_NoSizeNoConversion ==
    (handler = "convert" /\ ~all_sizes_var /\ Selected = {}) =>
        /\ ~Called /\ ret = "none" /\ exc = "" /\ dest = dest0
        /\ BuiltSizes => log = <<AskSave, WarnSizes>>
        /\ input_path = EmptyPath => log = <<WarnInput>>
        /\ (input_path # EmptyPath /\ output_path = EmptyPath) => log = <<AskSave>>

C3_Witness ==
    /\ handler = "convert" /\ ~all_sizes_var /\ Selected = {}
    /\ BuiltSizes /\ InLog(WarnSizes) /\ dest0 = OldFile

\* C4 as claimed: a run of convert() that stops at a validation failure
\* (empty input path, empty output path, empty size list) has shown a
\* warning.
C4_AsClaimed ==
    (handler = "convert" /\ ~Called) => AnyWarning

\* C4 amended: an empty input path and an empty size selection are surfaced
\* as warnings (the last thing the run shows); an empty output path is not:
\* the run ends after the save dialog without any message.  In none of the
\* three cases convert_to_ico is called.
C4_ValidationWarnings ==
    handler = "convert" =>
        /\ input_path = EmptyPath => (log = <<WarnInput>> /\ ~Called)
        /\ (input_path # EmptyPath /\ output_path = EmptyPath) =>
              (log = <<AskSave>> /\ ~AnyWarning /\ ~Called)
        /\ (BuiltSizes /\ conv_sizes = <<>>) =>
              (log[Len(log)] = WarnSizes /\ Count(WarnSizes) = 1 /\ ~Called)
        /\ ~Called => (input_path = EmptyPath \/ output_path = EmptyPath \/ conv_sizes = <<>>)

C4_Witness ==
    /\ handler = "convert" /\ input_path # EmptyPath /\ output_path = EmptyPath
    /\ log = <<AskSave>>

\* C5: an exception raised in convert_to_ico while opening, converting or
\* saving is caught there: it returns False after one error dialog with the
\* exception's message, nothing propagates, and the success message is
\* shown exactly when it returned True, never together with an error dialog.
C5_ExceptionsCaught ==
    (handler = "convert" /\ Called) =>
        /\ ret \in {"True", "False"}
        /\ exc # "" <=> ret = "False"
        /\ ret = "False" => (InLog(Event("showerror", exc)) /\ Count(Event("showerror", exc)) = 1)
        /\ ErrorShown => ret = "False"
        /\ InLog(ShowInfo) <=> ret = "True"
        /\ ~(ErrorShown /\ InLog(ShowInfo))

C5_Witness ==
    /\ handler = "convert" /\ Called /\ ret = "False"
    /\ exc = "MemoryError" /\ InLog(Event("showerror", "MemoryError"))

\* C6: when convert_to_ico returns False, the call has left no file at the
\* destination: the destination is as it was before the call or absent.
C6_NoPartialOutput ==
    (handler = "convert" /\ ret = "False") =>
        (dest = dest0 \/ dest.kind = "absent")

\* C7: after a successful convert_to_ico, decoding the output yields exactly
\* the requested sizes, one image each.
C7_RoundTripSizes ==
    (handler = "convert" /\ ret = "True") =>
        /\ dest.kind = "ico"
        /\ DecodedSizes(dest) = conv_sizes

\* C8: a run of convert() leaves the input entry, the "All Sizes" flag, the
\* size flags and the checkboxes' states as they were, whatever its outcome,
\* and after it the event loop takes the next event.
C8_ConvertKeepsForm ==
    /\ [][handler' = "convert" => form' = form]_vars
    /\ [](handler = "convert" => ENABLED mainloop)
    /\ [](handler = "none" => ENABLED Convert)

C8_Witness ==
    /\ handler = "convert" /\ ret = "False"
    /\ input_entry # EmptyPath /\ ~all_sizes_var /\ Selected = {48, 128}

\* C9: the six size checkboxes are disabled exactly when "All Sizes" is set;
\* a size flag changes only while "All Sizes" is clear, and toggling "All
\* Sizes" leaves the size flags as they are.
C9_CheckboxesFollowAllSizes ==
    /\ [](\A s \in SizeSet : size_checkbuttons[s] = "disabled" <=> all_sizes_var)
    /\ [][size_vars' # size_vars => (~all_sizes_var /\ ~all_sizes_var')]_vars
    /\ [][all_sizes_var' # all_sizes_var => size_vars' = size_vars]_vars

C9_Witness ==
    /\ all_sizes_var /\ size_vars[16] /\ ~size_vars[32]
    /\ size_checkbuttons[16] = "disabled"

\* C10: convert() checks the input path, then the output path, then the
\* size list and stops at the first failure: no save dialog with an empty
\* input path, no size list and no size warning without an output path,
\* and convert_to_ico at most once, after the save dialog, with a non-empty
\* input path, output path and size list.
C10_ValidationOrder ==
    handler = "convert" =>
        /\ input_path = EmptyPath => (~InLog(AskSave) /\ log = <<WarnInput>>)
        /\ input_path # EmptyPath => (log[1] = AskSave /\ Count(AskSave) = 1 /\ ~InLog(WarnInput))
        /\ output_path = EmptyPath => (conv_sizes = <<>> /\ ~InLog(WarnSizes) /\ ~Called)
        /\ InLog(WarnSizes) => (conv_sizes = <<>> /\ ~Called)
        /\ Count(CallToIco) <= 1
        /\ Called => /\ input_path # EmptyPath
                     /\ output_path # EmptyPath
                     /\ conv_sizes # <<>>
                     /\ log[2] = CallToIco

C10_Witness ==
    /\ handler = "convert" /\ Called /\ ret = "True"
    /\ ~all_sizes_var /\ Len(conv_sizes) = 1

====
